---- MODULE Spec2Model ----
(***************************************************************************)
(* Model of the TODO backend: the credential routes (routes/auth.js), the  *)
(* token middleware and the todo routes (middleware/auth.js).  Every       *)
(* request handler is one action; the stores are the Users and Todos       *)
(* collections; time is the value of Date.now() in milliseconds.           *)
(***************************************************************************)
EXTENDS Integers, Sequences, FiniteSets, TLC

VARIABLES
    users,      \* Users collection: email -> document (emails are unique)
    tokens,     \* user id -> the token its client holds (the latest issued)
    verified,   \* history: emails for which verify-code has succeeded
    todos,      \* Todos collection: sequence of documents in stored order
    creator,    \* history: todo id -> user id whose request created it
    nextId,     \* next todo _id to hand out
    now,        \* Date.now()
    last,       \* the latest request together with its response
    cron,       \* the midnight job of the server: its state and what it logged
    runs,       \* plan-tomorrow requests in progress, one record per request
    sending     \* send-verification-code requests between their two queries

vars == <<users, tokens, verified, todos, creator, nextId, now, last,
          cron, runs, sending>>

authVars == <<users, tokens, verified>>
todoVars == <<todos, creator, nextId>>

\* what a handler that runs in one step leaves alone besides its own stores
stepVars == <<cron, runs, sending>>

\* a request that its handler serves in one step
Step(Handler) == Handler /\ UNCHANGED stepVars

(***************************************************************************)
(* Bounds of the model.                                                    *)
(***************************************************************************)
ClockSlack == 1          \* the clock runs to the reset expiry plus this
MaxDays == 1             \* midnights the todo clock may pass
MaxTodos == 2            \* todo documents ever created
MaxHistory == 22         \* completed todos of a stored history
MaxHigh == 4             \* pending high-priority todos of a stored history
MaxMedium == 6           \* pending unscheduled medium-priority todos of one

(***************************************************************************)
(* Program constants.                                                      *)
(***************************************************************************)
VerificationTTL == 10 * 60 * 1000
ResetTTL == 30 * 60 * 1000
TokenTTL == 24 * 60 * 60           \* '24h', in seconds
DayMs == 24 * 60 * 60 * 1000

(***************************************************************************)
(* Request inputs.                                                         *)
(***************************************************************************)
Emails == {"a@x"}
Codes == {"111111", "222222"}       \* 6-digit strings
Names == {"ann"}
Passwords == {"pw1", "pw2"}

NoCode == "null"
NoDate == -1
NoName == "null"
NoPassword == <<>>
Undefined == 0                      \* no document has _id 0

MaxNow == ResetTTL + ClockSlack

(***************************************************************************)
(* External collaborators.                                                 *)
(***************************************************************************)
\* bcrypt.hash: a one-way image of the password, never the password itself
Hash(pw) == <<"bcrypt", pw>>

\* bcrypt.compare
Compare(pw, hashed) == hashed = Hash(pw)

\* jwt.sign({ userId }, secret, { expiresIn: '24h' }): exp counts seconds
Sign(id) == [userId |-> id, exp |-> (now \div 1000) + TokenTTL, sig |-> "secret"]

\* a token that was not signed with the secret
Forged == [userId |-> 1, exp |-> TokenTTL, sig |-> "forged"]

(***************************************************************************)
(* Users collection.                                                       *)
(***************************************************************************)
HasUser(e) == e \in DOMAIN users

\* _id given to a document inserted now
NewUserId == Cardinality(DOMAIN users) + 1

\* the document an upsert inserts: the update's fields over schema defaults
NewUser(code, expires) ==
    [id |-> NewUserId, name |-> NoName, password |-> NoPassword,
     isVerified |-> FALSE, verificationCode |-> code, codeExpires |-> expires,
     resetCode |-> NoCode, resetCodeExpires |-> NoDate]

Put(e, doc) == [x \in DOMAIN users \cup {e} |-> IF x = e THEN doc ELSE users[x]]

\* the client of user id replaces the token it holds
Keep(id, t) == [x \in DOMAIN tokens \cup {id} |-> IF x = id THEN t ELSE tokens[x]]

Reply(r) == last' = r

(***************************************************************************)
(* POST /send-verification-code                                            *)
(***************************************************************************)
SendVerificationCodeUpdate(e, code) ==
    IF HasUser(e)
    THEN [users[e] EXCEPT !.verificationCode = code,
                          !.codeExpires = now + VerificationTTL,
                          !.isVerified = FALSE]
    ELSE NewUser(code, now + VerificationTTL)

SendVerificationCode(e, code, mailOk) ==
    /\ UNCHANGED <<tokens, verified, todoVars, now>>
    /\ IF HasUser(e) /\ users[e].isVerified
       THEN /\ UNCHANGED users
            /\ Reply([op |-> "send-verification-code", email |-> e,
                      status |-> 400, result |-> "AlreadyVerified"])
       ELSE /\ users' = Put(e, SendVerificationCodeUpdate(e, code))
            /\ Reply([op |-> "send-verification-code", email |-> e,
                      status |-> IF mailOk THEN 200 ELSE 500,
                      result |-> IF mailOk THEN "Sent" ELSE "DeliveryFailed"])

\* The same handler, query by query: the request awaits findOne and then
\* findOneAndUpdate, so other requests are served between the two.
\* const verifiedUser = await User.findOne({ email, isVerified: true }),
\* then the code and its expiry are drawn
SendCheck(e, code) ==
    /\ UNCHANGED <<authVars, todoVars, now, cron, runs>>
    /\ IF HasUser(e) /\ users[e].isVerified
       THEN /\ UNCHANGED sending
            /\ Reply([op |-> "send-verification-code", email |-> e,
                      status |-> 400, result |-> "AlreadyVerified"])
       ELSE /\ sending' = sending \cup
                   {[email |-> e, verificationCode |-> code,
                     codeExpires |-> now + VerificationTTL]}
            /\ UNCHANGED last

\* await User.findOneAndUpdate({ email }, { email, verificationCode,
\* codeExpires, isVerified: false }, { upsert: true }), then the mail
SendUpsert(req, mailOk) ==
    /\ req \in sending
    /\ sending' = sending \ {req}
    /\ users' = Put(req.email,
                    IF HasUser(req.email)
                    THEN [users[req.email] EXCEPT
                             !.verificationCode = req.verificationCode,
                             !.codeExpires = req.codeExpires,
                             !.isVerified = FALSE]
                    ELSE NewUser(req.verificationCode, req.codeExpires))
    /\ Reply([op |-> "send-verification-code", email |-> req.email,
              status |-> IF mailOk THEN 200 ELSE 500,
              result |-> IF mailOk THEN "Sent" ELSE "DeliveryFailed"])
    /\ UNCHANGED <<tokens, verified, todoVars, now, cron, runs>>

(***************************************************************************)
(* POST /verify-code                                                       *)
(***************************************************************************)
\* mutant: the code is refused at the instant of its expiry (>= for >)
CodeExpiredAtExpiry(expires) == now >= (IF expires = NoDate THEN 0 ELSE expires)

\* Date.now() > user.codeExpires (a null date compares as 0)
CodeExpired(expires) == now > (IF expires = NoDate THEN 0 ELSE expires)

\* mutant: the expiry is looked at before the code
VerifyCodeResultExpiryFirst(e, code) ==
    IF ~HasUser(e) THEN "NotFound"
    ELSE IF CodeExpired(users[e].codeExpires) THEN "CodeExpired"
    ELSE IF users[e].verificationCode # code THEN "InvalidCode"
    ELSE "Verified"

VerifyCodeResult(e, code) ==
    IF ~HasUser(e) THEN "NotFound"
    ELSE IF users[e].verificationCode # code THEN "InvalidCode"
    ELSE IF CodeExpired(users[e].codeExpires) THEN "CodeExpired"
    ELSE "Verified"

VerifyCode(e, code) ==
    LET r == VerifyCodeResult(e, code) IN
    /\ UNCHANGED <<tokens, todoVars, now>>
    /\ IF r = "Verified"
       THEN /\ users' = [users EXCEPT ![e].isVerified = TRUE]
            /\ verified' = verified \cup {e}
       ELSE UNCHANGED <<users, verified>>
    /\ Reply([op |-> "verify-code", email |-> e, code |-> code,
              status |-> IF r = "Verified" THEN 200 ELSE 400, result |-> r])

(***************************************************************************)
(* POST /register                                                          *)
(***************************************************************************)
RegisterResult(e) ==
    IF HasUser(e) /\ users[e].password # NoPassword THEN "UserExists"
    ELSE IF ~HasUser(e) \/ ~users[e].isVerified THEN "VerificationRequired"
    ELSE "Registered"

\* mutant: a successful register leaves the verification code in place
RegisterKeepsCode(name, e, pw) ==
    LET r == RegisterResult(e) IN
    /\ UNCHANGED <<verified, todoVars, now>>
    /\ IF r = "Registered"
       THEN /\ users' = [users EXCEPT ![e].name = name,
                                      ![e].password = Hash(pw)]
            /\ tokens' = Keep(users[e].id, Sign(users[e].id))
            /\ Reply([op |-> "register", email |-> e, status |-> 201,
                      result |-> r, token |-> Sign(users[e].id)])
       ELSE /\ UNCHANGED <<users, tokens>>
            /\ Reply([op |-> "register", email |-> e, status |-> 400,
                      result |-> r])

Register(name, e, pw) ==
    LET r == RegisterResult(e) IN
    /\ UNCHANGED <<verified, todoVars, now>>
    /\ IF r = "Registered"
       THEN /\ users' = [users EXCEPT ![e].name = name,
                                      ![e].password = Hash(pw),
                                      ![e].verificationCode = NoCode,
                                      ![e].codeExpires = NoDate]
            /\ tokens' = Keep(users[e].id, Sign(users[e].id))
            /\ Reply([op |-> "register", email |-> e, status |-> 201,
                      result |-> r, token |-> Sign(users[e].id)])
       ELSE /\ UNCHANGED <<users, tokens>>
            /\ Reply([op |-> "register", email |-> e, status |-> 400,
                      result |-> r])

(***************************************************************************)
(* POST /login                                                             *)
(***************************************************************************)
\* mutant: the password is not compared
LoginResultAnyPassword(e, pw) ==
    IF ~HasUser(e) \/ users[e].password = NoPassword THEN "InvalidCredentials"
    ELSE IF ~users[e].isVerified THEN "EmailNotVerified"
    ELSE "LoggedIn"

LoginResult(e, pw) ==
    IF ~HasUser(e) \/ users[e].password = NoPassword THEN "InvalidCredentials"
    ELSE IF ~users[e].isVerified THEN "EmailNotVerified"
    ELSE IF ~Compare(pw, users[e].password) THEN "InvalidCredentials"
    ELSE "LoggedIn"

Login(e, pw) ==
    LET r == LoginResult(e, pw) IN
    /\ UNCHANGED <<users, verified, todoVars, now>>
    /\ IF r = "LoggedIn"
       THEN /\ tokens' = Keep(users[e].id, Sign(users[e].id))
            /\ Reply([op |-> "login", email |-> e, status |-> 200,
                      result |-> r, token |-> Sign(users[e].id)])
       ELSE /\ UNCHANGED tokens
            /\ Reply([op |-> "login", email |-> e, status |-> 400,
                      result |-> r])

(***************************************************************************)
(* Token middleware.                                                       *)
(***************************************************************************)
\* jwt.verify: the signature is ours and the token has not expired
TokenValid(t) == t.sig = "secret" /\ (now \div 1000) < t.exp

\* req.user as the middleware sets it
auth(t) == [id |-> t.userId]

(***************************************************************************)
(* GET /user                                                               *)
(***************************************************************************)
\* req.user.userId as the handler reads it
GetUserKey(reqUser) ==
    IF "userId" \in DOMAIN reqUser THEN reqUser["userId"] ELSE Undefined

\* User.findById(key): findById(undefined) is findOne({ _id: null })
FindById(key) == {e \in DOMAIN users : users[e].id = key}

\* .select('-password -verificationCode -codeExpires -resetCode -resetCodeExpires')
Select(e, doc) ==
    [id |-> doc.id, name |-> doc.name, email |-> e, isVerified |-> doc.isVerified]

GetUser(t) ==
    /\ UNCHANGED <<authVars, todoVars, now>>
    /\ IF ~TokenValid(t)
       THEN Reply([op |-> "user", token |-> t, status |-> 401,
                   result |-> "InvalidToken"])
       ELSE LET found == FindById(GetUserKey(auth(t))) IN
            IF found = {}
            THEN Reply([op |-> "user", token |-> t, status |-> 404,
                        result |-> "NotFound"])
            ELSE \E e \in found :
                   Reply([op |-> "user", token |-> t, status |-> 200,
                          result |-> "Found", user |-> Select(e, users[e])])

(***************************************************************************)
(* POST /forgot-password                                                   *)
(***************************************************************************)
ForgotPassword(e, code, mailOk) ==
    /\ UNCHANGED <<tokens, verified, todoVars, now>>
    /\ IF ~HasUser(e)
       THEN /\ UNCHANGED users
            /\ Reply([op |-> "forgot-password", email |-> e,
                      status |-> 404, result |-> "NotFound"])
       ELSE /\ users' = [users EXCEPT ![e].resetCode = code,
                                      ![e].resetCodeExpires = now + ResetTTL]
            /\ Reply([op |-> "forgot-password", email |-> e,
                      status |-> IF mailOk THEN 200 ELSE 500,
                      result |-> IF mailOk THEN "Sent" ELSE "DeliveryFailed"])

(***************************************************************************)
(* POST /reset-password                                                    *)
(***************************************************************************)
\* mutant: the lookup leaves out the expiry
ResetMatchesAnyTime(e, code) == HasUser(e) /\ users[e].resetCode = code

\* User.findOne({ email, resetCode: code, resetCodeExpires: { $gt: Date.now() } })
ResetMatches(e, code) ==
    /\ HasUser(e)
    /\ users[e].resetCode = code
    /\ users[e].resetCodeExpires # NoDate
    /\ users[e].resetCodeExpires > now

ResetPassword(e, code, pw) ==
    /\ UNCHANGED <<tokens, verified, todoVars, now>>
    /\ IF ResetMatches(e, code)
       THEN /\ users' = [users EXCEPT ![e].password = Hash(pw),
                                      ![e].resetCode = NoCode,
                                      ![e].resetCodeExpires = NoDate]
            /\ Reply([op |-> "reset-password", email |-> e,
                      code |-> code, status |-> 200, result |-> "PasswordReset"])
       ELSE /\ UNCHANGED users
            /\ Reply([op |-> "reset-password", email |-> e,
                      code |-> code, status |-> 400,
                      result |-> "InvalidOrExpiredCode"])

(***************************************************************************)
(* The clock of the credential flows: it moves to the instants around the  *)
(* expiry of a stored code.                                                *)
(***************************************************************************)
Expiries ==
    {users[e].codeExpires : e \in DOMAIN users}
        \cup {users[e].resetCodeExpires : e \in DOMAIN users}

Instants == {x + d : x \in Expiries \ {NoDate}, d \in {-1, 0, 1}}

Tick ==
    /\ \E t \in Instants : t > now /\ t <= MaxNow /\ now' = t
    /\ UNCHANGED <<authVars, todoVars, last>>

(***************************************************************************)
(* Todos collection.  The schema is models/todoModel: the paths a request  *)
(* body may set, and the defaults of the paths a create leaves out.        *)
(***************************************************************************)
UserIds == {1, 2}
Titles == {"t"}

TodoPaths == {"user", "title", "completed", "completedAt", "dueDate",
              "priority", "category", "createdAt"}

\* completedAt has no default; createdAt defaults to Date.now
TodoDefaults == [completedAt |-> NoDate, createdAt |-> now]

\* Todo.findOne({ _id: id, user: u }): the position in the store, 0 if none
FindOne(id, u) ==
    IF \E i \in DOMAIN todos : todos[i].id = id /\ todos[i].user = u
    THEN CHOOSE i \in DOMAIN todos : todos[i].id = id /\ todos[i].user = u
    ELSE 0

\* next local midnight: setDate(getDate() + 1); setHours(0, 0, 0, 0)
Tomorrow(t) == ((t \div DayMs) + 1) * DayMs

\* mutant: the query leaves out the user
DueTomorrowAnyUser(d, u, tomorrow) ==
    /\ d.dueDate # NoDate
    /\ d.dueDate >= tomorrow
    /\ d.dueDate < tomorrow + DayMs

\* { dueDate: { $gte: tomorrow, $lt: tomorrow + 24h }, user: u }
DueTomorrow(d, u, tomorrow) ==
    /\ d.user = u
    /\ d.dueDate # NoDate
    /\ d.dueDate >= tomorrow
    /\ d.dueDate < tomorrow + DayMs

\* the tokens a client may present to the todo routes
\* (freshly signed ones, a forged one and one that has just expired)
Stale == [userId |-> 1, exp |-> now \div 1000, sig |-> "secret"]

Bearer == {Sign(u) : u \in UserIds} \cup {Forged, Stale}

Unauthorized(op) ==
    /\ UNCHANGED <<authVars, todoVars, now>>
    /\ Reply([op |-> op, status |-> 401, result |-> "InvalidToken"])

(***************************************************************************)
(* GET /todos                                                              *)
(***************************************************************************)
GetTodos(t) ==
    IF ~TokenValid(t) THEN Unauthorized("get-todos")
    ELSE LET u == auth(t).id IN
         /\ UNCHANGED <<authVars, todoVars, now>>
         /\ Reply([op |-> "get-todos", user |-> u, status |-> 200, result |-> "Ok",
                   ids |-> {todos[i].id : i \in {j \in DOMAIN todos : todos[j].user = u}}])

(***************************************************************************)
(* POST /todos                                                             *)
(***************************************************************************)
\* req.body.x || fallback
OrElse(body, f, fallback) ==
    IF f \in DOMAIN body /\ body[f] # FALSE THEN body[f] ELSE fallback

NewTodo(body, u) ==
    [id |-> nextId,
     title |-> body.title,
     completed |-> OrElse(body, "completed", FALSE),
     dueDate |-> IF "dueDate" \in DOMAIN body THEN body.dueDate ELSE NoDate,
     priority |-> IF "priority" \in DOMAIN body THEN body.priority ELSE "medium",
     category |-> IF "category" \in DOMAIN body THEN body.category ELSE "general",
     user |-> u,
     completedAt |-> TodoDefaults.completedAt,
     createdAt |-> TodoDefaults.createdAt]

CreateTodo(t, body) ==
    IF ~TokenValid(t) THEN Unauthorized("create-todo")
    ELSE LET u == auth(t).id IN
         /\ nextId <= MaxTodos
         /\ todos' = Append(todos, NewTodo(body, u))
         /\ creator' = [x \in DOMAIN creator \cup {nextId} |->
                           IF x = nextId THEN u ELSE creator[x]]
         /\ nextId' = nextId + 1
         /\ UNCHANGED <<authVars, now>>
         /\ Reply([op |-> "create-todo", user |-> u, id |-> nextId,
                   status |-> 201, result |-> "Created"])

(***************************************************************************)
(* PUT /todos/:id                                                          *)
(***************************************************************************)
\* the completedAt the handler writes into req.body before the update
StampCompletedAt(body, todo) ==
    IF "completed" \in DOMAIN body /\ body.completed = TRUE /\ ~todo.completed
    THEN [f \in DOMAIN body \cup {"completedAt"} |->
             IF f = "completedAt" THEN now ELSE body[f]]
    ELSE IF "completed" \in DOMAIN body /\ body.completed = FALSE
    THEN [f \in DOMAIN body \cup {"completedAt"} |->
             IF f = "completedAt" THEN NoDate ELSE body[f]]
    ELSE body

\* Todo.findByIdAndUpdate(id, body): every schema path of body is set
ApplyUpdate(doc, body) ==
    [f \in DOMAIN doc |->
        IF f \in DOMAIN body /\ f \in TodoPaths THEN body[f] ELSE doc[f]]

UpdateTodo(t, id, body) ==
    IF ~TokenValid(t) THEN Unauthorized("update-todo")
    ELSE LET u == auth(t).id
             i == FindOne(id, u) IN
         /\ UNCHANGED <<authVars, creator, nextId, now>>
         /\ IF i = 0
            THEN /\ UNCHANGED todos
                 /\ Reply([op |-> "update-todo", user |-> u, id |-> id,
                           status |-> 404, result |-> "NotFound"])
            ELSE /\ todos' = [todos EXCEPT
                                ![i] = ApplyUpdate(@, StampCompletedAt(body, @))]
                 /\ Reply([op |-> "update-todo", user |-> u, id |-> id,
                           status |-> 200, result |-> "Updated"])

(***************************************************************************)
(* DELETE /todos/:id                                                       *)
(***************************************************************************)
Remove(i) == SubSeq(todos, 1, i - 1) \o SubSeq(todos, i + 1, Len(todos))

DeleteTodo(t, id) ==
    IF ~TokenValid(t) THEN Unauthorized("delete-todo")
    ELSE LET u == auth(t).id
             i == FindOne(id, u) IN
         /\ UNCHANGED <<authVars, creator, nextId, now>>
         /\ IF i = 0
            THEN /\ UNCHANGED todos
                 /\ Reply([op |-> "delete-todo", user |-> u, id |-> id,
                           status |-> 404, result |-> "NotFound"])
            ELSE /\ todos' = Remove(i)
                 /\ Reply([op |-> "delete-todo", user |-> u, id |-> id,
                           status |-> 200, result |-> "Deleted"])

(***************************************************************************)
(* POST /todos/plan-tomorrow                                               *)
(***************************************************************************)
Max(a, b) == IF a >= b THEN a ELSE b
Min(a, b) == IF a <= b THEN a ELSE b

\* mutant: the quotient is rounded down (Math.floor for Math.ceil)
OptimalTaskCountFloor(completed) == Max(3, (completed \div 7) + 1)

\* Math.ceil(Math.max(3, completed / 7 + 1))
OptimalTaskCount(completed) ==
    Max(3, (completed \div 7) + 1 + (IF completed % 7 = 0 THEN 0 ELSE 1))

Pending(u) == SelectSeq(todos, LAMBDA d : d.user = u /\ ~d.completed)
Completed(u) == SelectSeq(todos, LAMBDA d : d.user = u /\ d.completed)

\* mutant: only the high-priority todos that carry no due date yet
HighPriorityTasksUnscheduled(u) ==
    SelectSeq(Pending(u), LAMBDA d : d.priority = "high" /\ d.dueDate = NoDate)

HighPriorityTasks(u) == SelectSeq(Pending(u), LAMBDA d : d.priority = "high")

\* pending medium-priority todos that carry no due date (!todo.dueDate)
MediumPriorityTasks(u) ==
    SelectSeq(Pending(u), LAMBDA d : d.priority = "medium" /\ d.dueDate = NoDate)

AdditionalTasksNeeded(u) ==
    Max(0, OptimalTaskCount(Len(Completed(u))) - Len(HighPriorityTasks(u)))

\* mutant: the slice takes the last tasks of the list instead of the first
TasksToAddFromEnd(u) ==
    SubSeq(MediumPriorityTasks(u),
           Len(MediumPriorityTasks(u)) + 1
               - Min(AdditionalTasksNeeded(u), Len(MediumPriorityTasks(u))),
           Len(MediumPriorityTasks(u)))

\* mediumPriorityTasks.slice(0, additionalTasksNeeded)
TasksToAdd(u) ==
    SubSeq(MediumPriorityTasks(u), 1,
           Min(AdditionalTasksNeeded(u), Len(MediumPriorityTasks(u))))

\* the ids whose documents get dueDate = tomorrow
Assigned(u) ==
    {HighPriorityTasks(u)[i].id : i \in DOMAIN HighPriorityTasks(u)}
        \cup {TasksToAdd(u)[i].id : i \in DOMAIN TasksToAdd(u)}

\* mutant: the range check leaves out midnight itself ($gt for $gte)
ExistingPlannedTasksAfterMidnight(u) ==
    SelectSeq(todos, LAMBDA d : DueTomorrow(d, u, Tomorrow(now))
                                  /\ d.dueDate > Tomorrow(now))

ExistingPlannedTasks(u) ==
    SelectSeq(todos, LAMBDA d : DueTomorrow(d, u, Tomorrow(now)))

\* task.dueDate = tomorrow; await task.save()
SaveDueDates(ids, tomorrow) ==
    [i \in DOMAIN todos |->
        IF todos[i].id \in ids THEN [todos[i] EXCEPT !.dueDate = tomorrow]
        ELSE todos[i]]

\* whether the request before this one was a plan of the same user for the
\* same day that did plan, and the taskCount it reported
Previous(u) ==
    IF last.op = "plan-tomorrow" /\ last.status = 200 /\ last.user = u
       /\ last.tomorrow = Tomorrow(now) /\ last.planned
    THEN [planned |-> TRUE, count |-> last.count]
    ELSE [planned |-> FALSE, count |-> 0]

\* members every plain object ({}) inherits: completionByCategory[name] finds
\* them although the object has no own property of that name
ObjectPrototype ==
    {"constructor", "hasOwnProperty", "isPrototypeOf", "propertyIsEnumerable",
     "toLocaleString", "toString", "valueOf", "__proto__"}

\* the completed todos the histograms count: both timestamps are set
Measured(u) ==
    SelectSeq(Completed(u),
              LAMBDA d : d.completedAt # NoDate /\ d.createdAt # NoDate)

\* todo.category || 'general'
Category(d) == IF d.category = "" THEN "general" ELSE d.category

\* the own properties of completionByCategory after the forEach over docs.
\* For an inherited name the test !completionByCategory[category] is false,
\* nothing is initialised, and count++ and totalTime += land on the
\* inherited member: the object gets no own property of that name.
RECURSIVE CompletionByCategory(_)
CompletionByCategory(docs) ==
    IF Len(docs) = 0 THEN << >>
    ELSE LET acc == CompletionByCategory(SubSeq(docs, 1, Len(docs) - 1))
             d == docs[Len(docs)]
             category == Category(d)
             completionTime == d.completedAt - d.createdAt
         IN IF category \in DOMAIN acc
            THEN [acc EXCEPT ![category] =
                     [count |-> @.count + 1,
                      totalTime |-> @.totalTime + completionTime]]
            ELSE IF category \in ObjectPrototype THEN acc
            ELSE [c \in DOMAIN acc \cup {category} |->
                     IF c = category
                     THEN [count |-> 1, totalTime |-> completionTime]
                     ELSE acc[c]]

\* the number a / b, kept exact as a fraction
Quotient(a, b) == [num |-> a, den |-> b]

\* count > 0 ? totalTime / count : 0, for every own key
AverageCompletionTimes(byCategory) ==
    [c \in DOMAIN byCategory |->
        IF byCategory[c].count > 0
        THEN Quotient(byCategory[c].totalTime, byCategory[c].count)
        ELSE Quotient(0, 1)]

\* new Date(completedAt).getDay(): 0 is Sunday, day 0 of the clock a Thursday
GetDay(t) == ((t \div DayMs) + 4) % 7

\* the keys of completionByDay are visited in ascending order and a later
\* day wins only with strictly more completions; 0 when nothing is counted
MostProductiveDay(docs) ==
    LET count(day) ==
            Cardinality({i \in DOMAIN docs : GetDay(docs[i].completedAt) = day})
        best == {day \in 0..6 : \A other \in 0..6 : count(day) >= count(other)}
    IN IF Len(docs) = 0 THEN 0
       ELSE CHOOSE day \in best : \A other \in best : day <= other

Analysis(u) ==
    [mostProductiveDay |-> MostProductiveDay(Measured(u)),
     completionByCategory |-> CompletionByCategory(Measured(u)),
     averageCompletionTimes |->
         AverageCompletionTimes(CompletionByCategory(Measured(u)))]

PlanTomorrow(t) ==
    IF ~TokenValid(t) THEN Unauthorized("plan-tomorrow")
    ELSE LET u == auth(t).id
             tomorrow == Tomorrow(now)
             existing == Len(ExistingPlannedTasks(u)) IN
         /\ UNCHANGED <<authVars, creator, nextId, now>>
         /\ IF existing > 0
            THEN /\ UNCHANGED todos
                 /\ Reply([op |-> "plan-tomorrow", user |-> u, status |-> 200,
                           result |-> "AlreadyPlanned", planned |-> FALSE,
                           count |-> existing, tomorrow |-> tomorrow,
                           previous |-> Previous(u)])
            ELSE /\ todos' = SaveDueDates(Assigned(u), tomorrow)
                 /\ Reply([op |-> "plan-tomorrow", user |-> u, status |-> 200,
                           result |-> "Planned", planned |-> TRUE,
                           count |-> Cardinality(
                               {i \in DOMAIN todos :
                                   DueTomorrow(todos'[i], u, tomorrow)}),
                           tomorrow |-> tomorrow, previous |-> Previous(u),
                           analysis |-> Analysis(u)])

(***************************************************************************)
(* POST /todos/plan-tomorrow, query by query: the handler awaits each of   *)
(* its finds and saves, so two requests in progress take turns between     *)
(* them.  runs.of[r] is what request r holds; runs.store (history) is the  *)
(* collection as it was when the requests arrived.                         *)
(***************************************************************************)
Racers == {1, 2}

StartRun(u) ==
    [pc |-> "readCompleted", user |-> u, completedTodos |-> << >>,
     pendingTodos |-> << >>, tomorrow |-> NoDate, queue |-> << >>,
     saved |-> {}, passed |-> FALSE]

Ids(docs) == [i \in DOMAIN docs |-> docs[i].id]

\* highPriorityTasks followed by tasksToAdd, both filtered from the snapshot
RunQueue(completedTodos, pendingTodos) ==
    LET highPriorityTasks ==
            SelectSeq(pendingTodos, LAMBDA d : d.priority = "high")
        optimalTaskCount == OptimalTaskCount(Len(completedTodos))
        additionalTasksNeeded == Max(0, optimalTaskCount - Len(highPriorityTasks))
        mediumPriorityTasks ==
            SelectSeq(pendingTodos,
                      LAMBDA d : d.priority = "medium" /\ d.dueDate = NoDate)
        tasksToAdd ==
            SubSeq(mediumPriorityTasks, 1,
                   Min(additionalTasksNeeded, Len(mediumPriorityTasks)))
    IN Ids(highPriorityTasks) \o Ids(tasksToAdd)

\* mutant: the range check leaves out midnight itself ($gt for $gte)
RunExistingAfterMidnight(u, tomorrow) ==
    SelectSeq(todos, LAMBDA d : DueTomorrow(d, u, tomorrow) /\ d.dueDate > tomorrow)

\* existingPlannedTasks, read from the collection when the guard runs
RunExisting(u, tomorrow) ==
    SelectSeq(todos, LAMBDA d : DueTomorrow(d, u, tomorrow))

\* the analysis over the snapshot of the completed todos
RunAnalysis(completedTodos) ==
    LET measured ==
            SelectSeq(completedTodos,
                      LAMBDA d : d.completedAt # NoDate /\ d.createdAt # NoDate)
    IN [mostProductiveDay |-> MostProductiveDay(measured),
        completionByCategory |-> CompletionByCategory(measured),
        averageCompletionTimes |->
            AverageCompletionTimes(CompletionByCategory(measured))]

SetRun(r, run) == runs' = [runs EXCEPT !.of[r] = run]

\* const completedTodos = await Todo.find({ completed: true, user })
ReadCompleted(r) ==
    LET run == runs.of[r] IN
    /\ run.pc = "readCompleted"
    /\ SetRun(r, [run EXCEPT !.pc = "readPending",
                             !.completedTodos = Completed(run.user)])
    /\ UNCHANGED <<authVars, todoVars, now, last, cron, sending>>

\* const pendingTodos = await Todo.find({ completed: false, user }); the
\* histograms and tomorrow are computed before the next await
ReadPending(r) ==
    LET run == runs.of[r] IN
    /\ run.pc = "readPending"
    /\ SetRun(r, [run EXCEPT !.pc = "guard",
                             !.pendingTodos = Pending(run.user),
                             !.tomorrow = Tomorrow(now)])
    /\ UNCHANGED <<authVars, todoVars, now, last, cron, sending>>

\* const existingPlannedTasks = await Todo.find(...); the guard
RunGuard(r) ==
    LET run == runs.of[r]
        existing == Len(RunExisting(run.user, run.tomorrow)) IN
    /\ run.pc = "guard"
    /\ UNCHANGED <<authVars, todoVars, now, cron, sending>>
    /\ IF existing > 0
       THEN /\ SetRun(r, [run EXCEPT !.pc = "done"])
            /\ Reply([op |-> "plan-tomorrow", user |-> run.user, status |-> 200,
                      result |-> "AlreadyPlanned", planned |-> FALSE,
                      count |-> existing, tomorrow |-> run.tomorrow,
                      previous |-> Previous(run.user)])
       ELSE /\ SetRun(r, [run EXCEPT
                             !.pc = "save", !.passed = TRUE,
                             !.queue = RunQueue(run.completedTodos,
                                                run.pendingTodos)])
            /\ UNCHANGED last

\* task.dueDate = tomorrow; await task.save(), for the next task of either loop
RunSave(r) ==
    LET run == runs.of[r] IN
    /\ run.pc = "save"
    /\ run.queue # << >>
    /\ todos' = SaveDueDates({Head(run.queue)}, run.tomorrow)
    /\ SetRun(r, [run EXCEPT !.queue = Tail(run.queue),
                             !.saved = @ \cup {Head(run.queue)}])
    /\ UNCHANGED <<authVars, creator, nextId, now, last, cron, sending>>

\* const tomorrowTasks = await Todo.find(...); res.json
RunReRead(r) ==
    LET run == runs.of[r] IN
    /\ run.pc = "save"
    /\ run.queue = << >>
    /\ SetRun(r, [run EXCEPT !.pc = "done"])
    /\ Reply([op |-> "plan-tomorrow", user |-> run.user, status |-> 200,
              result |-> "Planned", planned |-> TRUE,
              count |-> Len(RunExisting(run.user, run.tomorrow)),
              tomorrow |-> run.tomorrow, previous |-> Previous(run.user),
              analysis |-> RunAnalysis(run.completedTodos)])
    /\ UNCHANGED <<authVars, todoVars, now, cron, sending>>

(***************************************************************************)
(* The clock of the todo routes: it moves to the next midnight.            *)
(***************************************************************************)
Midnight ==
    /\ Tomorrow(now) <= MaxDays * DayMs
    /\ now' = Tomorrow(now)
    /\ UNCHANGED <<authVars, todoVars, last>>

(***************************************************************************)
(* The midnight job of the server: cron.schedule('0 0 * * *', ...).  At    *)
(* midnight it posts once to /api/todos/plan-tomorrow and logs the answer. *)
(***************************************************************************)
CronIdle == [state |-> "idle", status |-> 0, planned |-> {}]

\* a request that carries no auth-token header: the middleware answers 401
\* to it as it does to a token that fails jwt.verify
NoToken == [userId |-> Undefined, exp |-> 0, sig |-> "none"]

\* the clock reaches midnight and the schedule fires
CronTrigger ==
    /\ cron.state # "triggered"
    /\ Tomorrow(now) <= MaxDays * DayMs
    /\ now' = Tomorrow(now)
    /\ cron' = [state |-> "triggered", status |-> 0, planned |-> {}]
    /\ UNCHANGED <<authVars, todoVars, last, runs, sending>>

\* the callback: fetch(..., { method: 'POST' }), then console.log of the
\* result; planned holds the users for whom the request ran the planning
CronJob ==
    /\ cron.state = "triggered"
    /\ PlanTomorrow(NoToken)
    /\ cron' = [state |-> "logged", status |-> last'.status,
                planned |-> IF last'.status = 200 THEN {last'.user} ELSE {}]
    /\ UNCHANGED <<runs, sending>>

(***************************************************************************)
(* Request bodies of the todo routes.                                      *)
(***************************************************************************)
OtherDay == (MaxDays + 2) * DayMs           \* a date no plan reaches
Noon == DayMs + (DayMs \div 2)              \* 12:00 on the day after day 0

\* bodies of the create, update and delete flows
CreateBodies ==
    {[title |-> ti] : ti \in Titles}
        \cup {[title |-> ti, completed |-> TRUE] : ti \in Titles}

UpdateBodies ==
    {[completed |-> TRUE], [completed |-> FALSE], [completedAt |-> Noon],
     [completed |-> TRUE, completedAt |-> Noon]}
        \cup {[user |-> u] : u \in UserIds}

\* bodies of the planning flow
PlanBodies ==
    {[title |-> ti] : ti \in Titles}
        \cup {[title |-> ti, priority |-> "high"] : ti \in Titles}
        \cup {[title |-> ti, priority |-> "high", dueDate |-> OtherDay] : ti \in Titles}
        \cup {[title |-> ti, priority |-> "low", category |-> "work"] : ti \in Titles}
        \cup {[title |-> ti, completed |-> TRUE] : ti \in Titles}
        \cup {[title |-> ti, dueDate |-> Noon] : ti \in Titles}

(***************************************************************************)
(* Stored histories: the Todos collection after a user has worked with the *)
(* service for a while.  Every document is one the create and update       *)
(* routes can leave behind.                                                *)
(***************************************************************************)
HistoryNow == DayMs \div 2                  \* 12:00 on day 0
HistoryCategories == <<"general", "work", "constructor">>

\* the i-th completed todo of user 1: created at second i; every 4th has no
\* completedAt (created with completed: true), every 7th no createdAt
CompletedDoc(i) ==
    [id |-> i, title |-> "t", completed |-> TRUE, dueDate |-> NoDate,
     priority |-> IF i % 2 = 0 THEN "high" ELSE "medium",
     category |-> HistoryCategories[(i % 3) + 1],
     user |-> 1,
     completedAt |-> IF i % 4 = 0 THEN NoDate ELSE (i * 1000) + (i * i * 10),
     createdAt |-> IF i % 7 = 0 THEN NoDate ELSE i * 1000]

\* a pending todo: of user 1 with priority high, low or medium, medium with
\* a due date ("scheduled"), or a medium one of user 2 ("other")
PendingDoc(id, kind) ==
    [id |-> id, title |-> "t", completed |-> FALSE,
     dueDate |-> IF kind = "scheduled" THEN OtherDay ELSE NoDate,
     priority |-> IF kind \in {"high", "low"} THEN kind ELSE "medium",
     category |-> "general",
     user |-> IF kind = "other" THEN 2 ELSE 1,
     completedAt |-> NoDate,
     createdAt |-> id * 1000]

Repeat(k, kind) == [i \in 1..k |-> kind]

\* stored order of the pending todos: the medium ones are not neighbours
PendingKinds(h, m, others) ==
    Repeat(Min(m, 2), "medium")
        \o (IF others THEN <<"low", "scheduled", "other">> ELSE << >>)
        \o Repeat(h, "high")
        \o Repeat(Max(0, m - 2), "medium")

HistoryStore(n, h, m, others) ==
    [i \in 1..n |-> CompletedDoc(i)]
        \o [j \in 1..Len(PendingKinds(h, m, others)) |->
               PendingDoc(n + j, PendingKinds(h, m, others)[j])]

InitStore(store) ==
    /\ users = << >>
    /\ tokens = << >>
    /\ verified = {}
    /\ todos = store
    /\ creator = [i \in 1..Len(store) |-> store[i].user]
    /\ nextId = Len(store) + 1
    /\ now = HistoryNow
    /\ last = [op |-> "none", status |-> 0, result |-> "none"]
    /\ cron = CronIdle
    /\ sending = {}

InitHistory ==
    /\ \E n \in 0..MaxHistory, h \in 0..MaxHigh, m \in 0..MaxMedium,
          others \in BOOLEAN : InitStore(HistoryStore(n, h, m, others))
    /\ runs = << >>

\* two plan-tomorrow requests of user 1 have arrived over a stored history
InitRace ==
    \E h \in 0..Min(1, MaxHigh), m \in 0..MaxMedium, others \in BOOLEAN :
        /\ InitStore(HistoryStore(0, h, m, others))
        /\ runs = [store |-> HistoryStore(0, h, m, others),
                   of |-> [r \in Racers |-> StartRun(1)]]

Init ==
    /\ users = << >>
    /\ tokens = << >>
    /\ verified = {}
    /\ todos = << >>
    /\ creator = << >>
    /\ nextId = 1
    /\ now = 0
    /\ last = [op |-> "none", status |-> 0, result |-> "none"]
    /\ cron = CronIdle
    /\ runs = << >>
    /\ sending = {}

NextAuth ==
    \/ \E e \in Emails, c \in Codes, ok \in BOOLEAN :
          Step(SendVerificationCode(e, c, ok))
    \/ \E e \in Emails, c \in Codes : Step(VerifyCode(e, c))
    \/ \E n \in Names, e \in Emails, p \in Passwords : Step(Register(n, e, p))
    \/ \E e \in Emails, p \in Passwords : Step(Login(e, p))
    \/ \E t \in {tokens[i] : i \in DOMAIN tokens} \cup {Forged} : Step(GetUser(t))
    \/ \E e \in Emails, c \in Codes, ok \in BOOLEAN : Step(ForgotPassword(e, c, ok))
    \/ \E e \in Emails, c \in Codes, p \in Passwords : Step(ResetPassword(e, c, p))
    \/ Step(Tick)

SpecAuth == Init /\ [][NextAuth]_vars

NextTodo ==
    \/ \E t \in Bearer : Step(GetTodos(t))
    \/ \E t \in Bearer, b \in CreateBodies : Step(CreateTodo(t, b))
    \/ \E t \in Bearer, id \in 1..MaxTodos, b \in UpdateBodies :
          Step(UpdateTodo(t, id, b))
    \/ \E t \in Bearer, id \in 1..MaxTodos : Step(DeleteTodo(t, id))
    \/ Step(Midnight)

SpecTodo == Init /\ [][NextTodo]_vars

NextPlan ==
    \/ \E t \in Bearer, b \in PlanBodies : Step(CreateTodo(t, b))
    \/ \E t \in Bearer : Step(PlanTomorrow(t))
    \/ Step(Midnight)

SpecPlan == Init /\ [][NextPlan]_vars

\* the server with its midnight job and clients that create todos
NextCron ==
    \/ \E t \in Bearer, b \in PlanBodies : Step(CreateTodo(t, b))
    \/ CronTrigger
    \/ CronJob

SpecCron == Init /\ [][NextCron]_vars

\* planning over stored histories
NextHistory == \E t \in Bearer : Step(PlanTomorrow(t))

SpecHistory == InitHistory /\ [][NextHistory]_vars

\* the verification routes with send-verification-code served query by query
NextVerifyRace ==
    \/ \E e \in Emails, c \in Codes : SendCheck(e, c)
    \/ \E req \in sending, ok \in BOOLEAN : SendUpsert(req, ok)
    \/ \E e \in Emails, c \in Codes : Step(VerifyCode(e, c))
    \/ \E n \in Names, e \in Emails, p \in Passwords : Step(Register(n, e, p))

SpecVerifyRace == Init /\ [][NextVerifyRace]_vars

\* two planning requests in progress at once
NextRace ==
    \/ \E r \in Racers : ReadCompleted(r)
    \/ \E r \in Racers : ReadPending(r)
    \/ \E r \in Racers : RunGuard(r)
    \/ \E r \in Racers : RunSave(r)
    \/ \E r \in Racers : RunReRead(r)

SpecRace == InitRace /\ [][NextRace]_vars

(***************************************************************************)
(* Properties.                                                             *)
(***************************************************************************)
HighPending(d, u) == d.user = u /\ ~d.completed /\ d.priority = "high"

C2_SecondPlanReportsFirst ==
    (last.op = "plan-tomorrow" /\ last.status = 200 /\ last.previous.planned) =>
        (~last.planned /\ last.count = last.previous.count)

\* C2, amended: the same, when the first call assigned at least one todo
\* (taskCount > 0).
C2_SecondPlanReportsFirstAssigned ==
    (last.op = "plan-tomorrow" /\ last.status = 200 /\ last.previous.planned
        /\ last.previous.count > 0) =>
        (~last.planned /\ last.count = last.previous.count)

\* a second call has just been turned away after a first one assigned todos
C2_Witness ==
    /\ last.op = "plan-tomorrow" /\ last.status = 200
    /\ last.previous.planned /\ last.previous.count > 0
    /\ ~last.planned

\* C3: an update or delete of a todo requested by a user other than the one
\* who created it returns 404 and leaves the store unchanged.
C3_OwnerIsolation ==
    [][\A t \in Bearer, id \in 1..MaxTodos :
          (/\ TokenValid(t)
           /\ id \in DOMAIN creator
           /\ creator[id] # auth(t).id
           /\ \/ \E b \in UpdateBodies : UpdateTodo(t, id, b)
              \/ DeleteTodo(t, id))
          => (last'.status = 404 /\ todos' = todos)]_vars

\* C4: the owner of every stored todo is the user who created it.
C4_OwnerNeverChanges ==
    \A i \in DOMAIN todos : todos[i].user = creator[todos[i].id]

\* C5: a stored todo has completedAt set if and only if it is completed.
C5_CompletedAtIffCompleted ==
    \A i \in DOMAIN todos : (todos[i].completedAt # NoDate) <=> todos[i].completed

\* C6: every user record with isVerified = false has no password.
C6_UnverifiedHasNoPassword ==
    \A e \in DOMAIN users : ~users[e].isVerified => users[e].password = NoPassword

\* C7: register for an email without a record, or with an unverified record,
\* fails with VerificationRequired and writes nothing; a successful register
\* is preceded by a successful verifyCode for the same email.
C7_RegisterNeedsVerification ==
    [][/\ \A n \in Names, e \in Emails, p \in Passwords :
             (Register(n, e, p) /\ (~HasUser(e) \/ ~users[e].isVerified)) =>
                 (last'.result = "VerificationRequired" /\ users' = users)
       /\ (last'.op = "register" /\ last'.status = 201) => last'.email \in verified'
      ]_vars

\* C8: a code issued at t expires at t + 10 minutes; verifyCode with the stored
\* code succeeds at every instant up to codeExpires and fails with CodeExpired
\* after it, leaving the record as it was.
C8_VerificationCodeExpiry ==
    [][/\ \A e \in Emails, c \in Codes, ok \in BOOLEAN :
             (SendVerificationCode(e, c, ok) /\ last'.result # "AlreadyVerified") =>
                 (users'[e].verificationCode = c /\ users'[e].codeExpires = now + 600000)
       /\ \A e \in Emails, c \in Codes :
             (VerifyCode(e, c) /\ HasUser(e) /\ users[e].verificationCode = c) =>
                 IF now <= users[e].codeExpires
                 THEN last'.result = "Verified" /\ users'[e].isVerified
                 ELSE last'.result = "CodeExpired" /\ users' = users
      ]_vars

\* the stored code has just been refused one millisecond after its expiry
C8_Witness ==
    /\ last.op = "verify-code" /\ last.result = "CodeExpired"
    /\ now = users[last.email].codeExpires + 1
    /\ ~users[last.email].isVerified

\* C9: resetPassword sets the password only when the stored reset code equals
\* the given one and has not expired (30 minutes after issuance); otherwise it
\* fails with InvalidOrExpiredCode and changes nothing.  A success clears the
\* reset fields, so the same code fails when tried again at once.
C9_ResetPasswordGuard ==
    [][/\ \A e \in Emails, c \in Codes, ok \in BOOLEAN :
             (ForgotPassword(e, c, ok) /\ HasUser(e)) =>
                 (users'[e].resetCode = c /\ users'[e].resetCodeExpires = now + 1800000)
       /\ \A e \in Emails, c \in Codes, p \in Passwords :
             ResetPassword(e, c, p) =>
                 IF HasUser(e) /\ users[e].resetCode = c
                        /\ users[e].resetCodeExpires > now
                 THEN /\ last'.result = "PasswordReset"
                      /\ users'[e].password = Hash(p)
                      /\ users'[e].resetCode = NoCode
                      /\ users'[e].resetCodeExpires = NoDate
                 ELSE last'.result = "InvalidOrExpiredCode" /\ users' = users
       /\ \A p \in Passwords :
             (/\ last.op = "reset-password" /\ last.result = "PasswordReset"
              /\ ResetPassword(last.email, last.code, p)) =>
                 (last'.result = "InvalidOrExpiredCode" /\ users' = users)
      ]_vars

\* a reset has just succeeded and cleared the code it used
C9_Witness ==
    /\ last.op = "reset-password" /\ last.result = "PasswordReset"
    /\ users[last.email].password # NoPassword
    /\ users[last.email].resetCode = NoCode

\* C10: GET /user with a valid token of a stored user returns 200 with that
\* user's record, stripped of the password and code fields.
C10_GetUserReturnsTokenUser ==
    (last.op = "user" /\ last.status # 401) =>
        \A e \in DOMAIN users :
            users[e].id = last.token.userId =>
                (last.status = 200 /\ last.user = Select(e, users[e]))

\* C11: once the midnight job has run to its end, the planning has been run
\* for every user who owns todos.
C11_SchedulerPlansEveryUser ==
    cron.state = "logged" =>
        \A i \in DOMAIN todos : todos[i].user \in cron.planned

\* C12: login returns a token exactly when the record exists, has a password,
\* is verified and the password matches; a failure is InvalidCredentials only
\* when there is no user, no password or a mismatch, and EmailNotVerified only
\* when the record is unverified; where just one of the two applies, that one
\* is returned; no login changes the Users collection.
C12_LoginOutcomes ==
    [][\A e \in Emails, p \in Passwords :
          Login(e, p) =>
              LET exists == HasUser(e)
                  hasPassword == exists /\ users[e].password # NoPassword
                  isVerified == exists /\ users[e].isVerified
                  matches == exists /\ users[e].password = Hash(p)
                  r == last'.result
              IN
              /\ users' = users
              /\ (r = "LoggedIn") <=> (hasPassword /\ isVerified /\ matches)
              /\ (r = "LoggedIn") <=> ("token" \in DOMAIN last')
              /\ r = "LoggedIn" =>
                     (last'.token.userId = users[e].id /\ last'.token.sig = "secret")
              /\ r \in {"LoggedIn", "InvalidCredentials", "EmailNotVerified"}
              /\ r = "InvalidCredentials" =>
                     (~exists \/ ~hasPassword \/ ~matches)
              /\ r = "EmailNotVerified" => (exists /\ ~isVerified)
              /\ (~exists \/ (isVerified /\ (~hasPassword \/ ~matches))) =>
                     r = "InvalidCredentials"
              /\ (exists /\ ~isVerified /\ hasPassword /\ matches) =>
                     r = "EmailNotVerified"
      ]_vars

\* a login with the wrong password has just been refused for a verified
\* record that has a password
C12_Witness ==
    /\ last.op = "login" /\ last.result = "InvalidCredentials"
    /\ HasUser(last.email)
    /\ users[last.email].isVerified
    /\ users[last.email].password # NoPassword

\* C14: an owner's PUT with completed:true on a pending todo sets completedAt
\* to the instant of the update; a PUT with completed:false sets it to null;
\* a PUT with completed:true on a completed todo leaves completedAt as it was.
C14_CompletedAtStamping ==
    [][\A t \in Bearer, id \in 1..MaxTodos, b \in UpdateBodies :
          (/\ TokenValid(t)
           /\ FindOne(id, auth(t).id) # 0
           /\ "completed" \in DOMAIN b
           /\ UpdateTodo(t, id, b))
          => LET i == FindOne(id, auth(t).id) IN
             IF b.completed = FALSE THEN todos'[i].completedAt = NoDate
             ELSE IF ~todos[i].completed THEN todos'[i].completedAt = now
             ELSE todos'[i].completedAt = todos[i].completedAt]_vars

\* positions of the completed todos of user u
CompletedOf(u) == {i \in DOMAIN todos : todos[i].user = u /\ todos[i].completed}

\* positions of the pending high-priority todos of user u
HighOf(u) == {i \in DOMAIN todos : HighPending(todos[i], u)}

\* positions of the pending medium-priority todos of user u without due date
MediumOf(u) ==
    {i \in DOMAIN todos :
        /\ todos[i].user = u /\ ~todos[i].completed
        /\ todos[i].priority = "medium" /\ todos[i].dueDate = NoDate}

\* ceil(max(3, n / 7 + 1)): the least k >= 3 with k >= n / 7 + 1
Ceiling(n) ==
    CHOOSE k \in 3..(n + 3) : 7 * k >= n + 7 /\ (k = 3 \/ 7 * (k - 1) < n + 7)

\* C13: a planning run that passes the guard, for a user with n completed
\* todos (the whole history), works with optimalTaskCount = ceil(max(3, n/7 +
\* 1)): besides the H high-priority todos it assigns min(|M|, max(0,
\* optimalTaskCount - H)) of the M unscheduled medium ones; the count is never
\* below 3, it is 3 for n = 0 and 4 for n = 21.
C13_OptimalTaskCount ==
    [][(/\ last'.op = "plan-tomorrow" /\ last'.status = 200 /\ last'.planned
        /\ PlanTomorrow(Sign(last'.user)))
          => LET u == last'.user
                 n == Cardinality(CompletedOf(u))
                 added == {i \in MediumOf(u) : todos'[i].dueDate = Tomorrow(now)}
             IN /\ OptimalTaskCount(n) = Ceiling(n)
                /\ OptimalTaskCount(n) >= 3
                /\ n = 0 => OptimalTaskCount(n) = 3
                /\ n = 21 => OptimalTaskCount(n) = 4
                /\ Cardinality(added) =
                       Min(Cardinality(MediumOf(u)),
                           Max(0, Ceiling(n) - Cardinality(HighOf(u))))]_vars

\* a run for a user with 21 completed todos and no high-priority one has just
\* assigned four medium todos and left a fifth unscheduled
C13_Witness ==
    /\ last.op = "plan-tomorrow" /\ last.status = 200 /\ last.planned
    /\ Cardinality(CompletedOf(last.user)) = 21
    /\ HighOf(last.user) = {}
    /\ MediumOf(last.user) # {}
    /\ Cardinality({i \in DOMAIN todos :
           /\ todos[i].user = last.user /\ ~todos[i].completed
           /\ todos[i].priority = "medium"
           /\ todos[i].dueDate = last.tomorrow}) = 4

\* sum of completedAt - createdAt over the todos at the positions S
RECURSIVE TotalTime(_)
TotalTime(S) ==
    IF S = {} THEN 0
    ELSE LET i == CHOOSE x \in S : TRUE
         IN (todos[i].completedAt - todos[i].createdAt) + TotalTime(S \ {i})

\* positions of the completed todos of u in category c with both timestamps
MeasuredOf(u, c) ==
    {i \in CompletedOf(u) :
        /\ todos[i].completedAt # NoDate /\ todos[i].createdAt # NoDate
        /\ todos[i].category = c}

\* C15: the analysis of a planning run has, for every category with at least
\* one completed todo that carries both timestamps, an average completion
\* time equal to the sum of completedAt - createdAt over those todos divided
\* by their number.
C15_AverageCompletionTime ==
    (last.op = "plan-tomorrow" /\ last.status = 200 /\ last.planned) =>
        \A c \in {todos[i].category : i \in CompletedOf(last.user)} :
            MeasuredOf(last.user, c) # {} =>
                /\ c \in DOMAIN last.analysis.averageCompletionTimes
                /\ last.analysis.averageCompletionTimes[c].num
                       * Cardinality(MeasuredOf(last.user, c))
                   = TotalTime(MeasuredOf(last.user, c))
                       * last.analysis.averageCompletionTimes[c].den

\* C16: in a planning run that passes the guard, with H pending high-priority
\* todos and M the pending medium-priority todos without due date in stored
\* order, exactly the first min(max(0, optimalTaskCount - H), |M|) todos of M
\* get dueDate = tomorrow; no low-priority todo, no completed todo and no
\* medium-priority todo that has a due date is assigned.
C16_MediumSelection ==
    [][(/\ last'.op = "plan-tomorrow" /\ last'.status = 200 /\ last'.planned
        /\ PlanTomorrow(Sign(last'.user)))
          => LET u == last'.user
                 M == MediumOf(u)
                 rank(i) == Cardinality({j \in M : j <= i})
                 take == Min(Max(0, OptimalTaskCount(Cardinality(CompletedOf(u)))
                                        - Cardinality(HighOf(u))),
                             Cardinality(M))
             IN \A i \in DOMAIN todos :
                   IF i \in M
                   THEN IF rank(i) <= take
                        THEN todos'[i] = [todos[i] EXCEPT !.dueDate = Tomorrow(now)]
                        ELSE todos'[i] = todos[i]
                   ELSE i \notin HighOf(u) => todos'[i] = todos[i]]_vars

\* a run with one high-priority todo has just assigned the first two medium
\* todos and left a later one unscheduled, next to a low-priority todo and a
\* medium one due on another day, both untouched
C16_Witness ==
    /\ last.op = "plan-tomorrow" /\ last.status = 200 /\ last.planned
    /\ \E h \in HighOf(last.user) : todos[h].dueDate = last.tomorrow
    /\ \E i, j \in DOMAIN todos :
          /\ i < j
          /\ todos[i].user = last.user /\ ~todos[i].completed
          /\ todos[i].priority = "medium" /\ todos[i].dueDate = last.tomorrow
          /\ j \in MediumOf(last.user)
    /\ \E k \in DOMAIN todos :
          /\ todos[k].user = last.user /\ todos[k].priority = "low"
          /\ todos[k].dueDate = NoDate
    /\ \E k \in DOMAIN todos :
          /\ todos[k].user = last.user /\ todos[k].priority = "medium"
          /\ todos[k].dueDate = OtherDay

\* the ids a single run over the collection store assigns for user u
SingleRunIds(store, u, tomorrow) ==
    LET queue == RunQueue(SelectSeq(store, LAMBDA d : d.user = u /\ d.completed),
                          SelectSeq(store, LAMBDA d : d.user = u /\ ~d.completed))
    IN IF \E i \in DOMAIN store : DueTomorrow(store[i], u, tomorrow)
       THEN {}
       ELSE {queue[i] : i \in DOMAIN queue}

\* the collection a single run over store leaves behind
SingleRun(store, u, tomorrow) ==
    [i \in DOMAIN store |->
        IF store[i].id \in SingleRunIds(store, u, tomorrow)
        THEN [store[i] EXCEPT !.dueDate = tomorrow]
        ELSE store[i]]

\* C17: when two planning runs of one user on one day take turns between
\* their reads, guards, writes and re-reads, no run assigns a todo that a
\* single run would not assign, and when both have ended the collection is
\* the one a single run leaves behind.
C17_InterleavedRunsAsOne ==
    /\ \A r \in Racers :
          runs.of[r].saved \subseteq SingleRunIds(runs.store, 1, Tomorrow(now))
    /\ \A i \in DOMAIN todos :
          \/ todos[i] = runs.store[i]
          \/ todos[i] = SingleRun(runs.store, 1, Tomorrow(now))[i]
    /\ (\A r \in Racers : runs.of[r].pc = "done") =>
           todos = SingleRun(runs.store, 1, Tomorrow(now))

\* both runs have passed the guard, both have written, and both have ended,
\* over a collection with more unscheduled medium todos than one run takes
C17_Witness ==
    /\ \A r \in Racers :
          /\ runs.of[r].pc = "done"
          /\ runs.of[r].passed
          /\ runs.of[r].saved # {}
    /\ MediumOf(1) # {}

\* C18: a record that is verified stays verified at every step, and a
\* send-verification-code for a verified email is answered AlreadyVerified
\* and changes nothing, however the requests for the email take turns.
C18_VerifiedStaysVerified ==
    [][/\ \A e \in Emails :
             (HasUser(e) /\ users[e].isVerified) => users'[e].isVerified
       /\ \A e \in Emails, c \in Codes :
             (SendCheck(e, c) /\ HasUser(e) /\ users[e].isVerified) =>
                 (last'.result = "AlreadyVerified" /\ users' = users)
      ]_vars

\* C19: a planning run of user A changes nothing but the dueDate of A's own
\* todos: every other field of every todo stays, no todo is created or
\* deleted, and the todos of other users are neither changed nor counted by
\* the guard (the run is turned away exactly when a todo of A is due tomorrow).
C19_PlanFrame ==
    [][(/\ last'.op = "plan-tomorrow" /\ last'.status = 200
        /\ PlanTomorrow(Sign(last'.user)))
          => LET A == last'.user
                 own == {i \in DOMAIN todos :
                            /\ todos[i].user = A
                            /\ todos[i].dueDate # NoDate
                            /\ todos[i].dueDate >= Tomorrow(now)
                            /\ todos[i].dueDate < Tomorrow(now) + DayMs}
             IN /\ DOMAIN todos' = DOMAIN todos
                /\ \A i \in DOMAIN todos :
                      /\ todos'[i] = [todos[i] EXCEPT !.dueDate = todos'[i].dueDate]
                      /\ todos[i].user # A => todos'[i] = todos[i]
                /\ <<creator', nextId'>> = <<creator, nextId>>
                /\ last'.planned <=> own = {}
                /\ ~last'.planned => (last'.count = Cardinality(own) /\ todos' = todos)
      ]_vars

\* a run of one user has just assigned a todo of its own while a todo of
\* another user, due tomorrow already, was neither counted nor changed
C19_Witness ==
    /\ last.op = "plan-tomorrow" /\ last.status = 200 /\ last.planned
    /\ last.count = 1
    /\ \E i, j \in DOMAIN todos :
          /\ todos[i].user = last.user /\ todos[i].dueDate = last.tomorrow
          /\ todos[j].user # last.user
          /\ todos[j].dueDate = Noon /\ last.tomorrow = DayMs

\* C20: verifyCode checks in this order: NotFound when there is no record,
\* InvalidCode when the stored code differs, CodeExpired when now is past
\* codeExpires; a success sets isVerified and leaves the code and its expiry
\* in place; every failure leaves the record as it was.
C20_VerifyCodeOrder ==
    [][\A e \in Emails, c \in Codes :
          VerifyCode(e, c) =>
              IF ~HasUser(e)
              THEN last'.result = "NotFound" /\ users' = users
              ELSE IF users[e].verificationCode # c
              THEN last'.result = "InvalidCode" /\ users' = users
              ELSE IF now > users[e].codeExpires
              THEN last'.result = "CodeExpired" /\ users' = users
              ELSE /\ last'.result = "Verified"
                   /\ users' = [users EXCEPT ![e].isVerified = TRUE]
                   /\ users'[e].verificationCode = c
                   /\ users'[e].codeExpires = users[e].codeExpires
      ]_vars

\* a wrong code has just been refused as InvalidCode although the stored
\* code had expired as well
C20_Witness ==
    /\ last.op = "verify-code" /\ last.result = "InvalidCode"
    /\ users[last.email].verificationCode # NoCode
    /\ now > users[last.email].codeExpires

\* user.name is assigned by a successful register and by nothing else
Registered(e) == HasUser(e) /\ users[e].name # NoName

\* C21: a successful register sets name and password and clears
\* verificationCode and codeExpires; from then on verifyCode fails with
\* InvalidCode for every code, the formerly valid one included, a further
\* register for the email fails with UserExists and leaves the record and
\* its password as they were, and requestVerificationCode for the email fails
\* with AlreadyVerified.
C21_RegisterClearsCode ==
    [][\A e \in Emails :
          /\ \A n \in Names, p \in Passwords :
                Register(n, e, p) =>
                    IF last'.result = "Registered"
                    THEN /\ users[e].verificationCode \in Codes
                         /\ users'[e].name = n
                         /\ users'[e].password = Hash(p)
                         /\ users'[e].verificationCode = NoCode
                         /\ users'[e].codeExpires = NoDate
                         /\ users'[e].isVerified
                         /\ Registered(e)'
                    ELSE Registered(e) =>
                             (last'.result = "UserExists" /\ users' = users)
          /\ Registered(e) =>
                /\ \A c \in Codes :
                      VerifyCode(e, c) =>
                          (last'.result = "InvalidCode" /\ users' = users)
                /\ \A c \in Codes, ok \in BOOLEAN :
                      SendVerificationCode(e, c, ok) =>
                          (last'.result = "AlreadyVerified" /\ users' = users)
      ]_vars

\* after a successful register a code has just been refused as InvalidCode
\* while its ten minutes had not passed
C21_Witness ==
    /\ last.op = "verify-code" /\ last.result = "InvalidCode"
    /\ Registered(last.email)
    /\ now < VerificationTTL

\* C22: when the mail cannot be sent during requestVerificationCode or
\* requestPasswordReset, the request ends with status 500 and the Users
\* collection is as it was before the request: no new record, no new or
\* replaced verification code, no reset of isVerified, no reset code.
C22_MailFailureLeavesStore ==
    [][\A e \in Emails, c \in Codes :
          /\ (SendVerificationCode(e, c, FALSE) /\ last'.result = "DeliveryFailed")
                 => (last'.status = 500 /\ users' = users)
          /\ (ForgotPassword(e, c, FALSE) /\ last'.result = "DeliveryFailed")
                 => (last'.status = 500 /\ users' = users)
      ]_vars

====
